---- MODULE Spec2Model ----
(***************************************************************************)
(* State model of Roads_Progress.py: the completion store                 *)
(* (completed_suburbs.csv), the assignment override file (assignments.csv),*)
(* the cached roster, the status reconciler, the progress statistics and   *)
(* the best-effort GitHub push.                                            *)
(*                                                                         *)
(* The source file carries unresolved merge markers.  Both sides agree on  *)
(* everything modelled here except the statistics block; the model follows *)
(* the incoming side (lines 134-135, 161-175, 200-234).                    *)
(*                                                                         *)
(* Text is modelled as a sequence of one-character strings, so that        *)
(* str.strip() and the CSV reader's missing-value parsing are computed.    *)
(***************************************************************************)
EXTENDS Integers, Sequences, FiniteSets, TLC

VARIABLES
    shp,            \* data/Rural_Suburbs_Allocation.shp: SUBURB -> Assigned
    saveFile,       \* completed_suburbs.csv
    assignFile,     \* assignments.csv
    cache,          \* st.cache_data entry of load_shapefile
    view,           \* what the last script run rendered
    call,           \* the handler the last run executed: arguments, what it read
    procs           \* concurrent save_completed calls, one per session

vars == <<shp, saveFile, assignFile, cache, view, call, procs>>

----------------------------------------------------------------------------
(* Bounds *)

\* rows of a completion file found on disk when the program starts
MaxRows == 2

----------------------------------------------------------------------------
(* Text *)

SP == " "

\* None / NaN as a dictionary key or a cell value
None == <<"None">>

\* str(float('nan'))
NAN_STR == <<"n", "a", "n">>

RECURSIVE lstrip(_)
lstrip(t) == IF t # <<>> /\ Head(t) = SP THEN lstrip(Tail(t)) ELSE t

RECURSIVE rstrip(_)
rstrip(t) ==
    IF t # <<>> /\ t[Len(t)] = SP THEN rstrip(SubSeq(t, 1, Len(t) - 1)) ELSE t

\* str.strip()
strip(t) == rstrip(lstrip(t))

\* pandas' default missing-value markers that can be spelled here
NA_VALUES == { <<>>, <<"N", "A">>, NAN_STR }

\* pd.read_csv's value for one field, then str(...) of it: a field that is a
\* missing-value marker is read as NaN, and str(NaN) is "nan"
str_of_field(t) == IF t \in NA_VALUES THEN NAN_STR ELSE t

----------------------------------------------------------------------------
(* Python dict: insertion-ordered, as a sequence of [k, v] items *)

DictKeys(d) == { d[i].k : i \in 1..Len(d) }

\* d.get(key, default)
DictGet(d, key, default) ==
    IF key \in DictKeys(d)
    THEN d[CHOOSE i \in 1..Len(d) : d[i].k = key].v
    ELSE default

\* d[key] = value: an existing key keeps its place, a new key goes last
DictSet(d, key, value) ==
    IF key \in DictKeys(d)
    THEN [i \in 1..Len(d) |-> IF d[i].k = key THEN [k |-> key, v |-> value] ELSE d[i]]
    ELSE Append(d, [k |-> key, v |-> value])

----------------------------------------------------------------------------
(* Files *)

\* completed_suburbs.csv is a sequence of groups of rows; a row is
\* <<Editor field, Suburb field>>.  The rows of one group are consecutive in
\* the file, in an order that no reader depends on: the writer's inner loop
\* iterates a Python set, whose order is not specified, and the group stands
\* for every order it can take.  A row written on its own is a group of one.
\* assignments.csv is a plain sequence of rows <<SUBURB field, Assigned field>>.

NoFile == [exists |-> FALSE, rows |-> <<>>]

File(rows) == [exists |-> TRUE, rows |-> rows]

----------------------------------------------------------------------------
(* Completion store *)

\* lines 59-62 for one row
load_row(row, completed) ==
    LET editor == strip(str_of_field(row[1]))
        suburb == strip(str_of_field(row[2]))
    IN  IF editor # <<>> /\ suburb # <<>>
        THEN DictSet(completed, editor, DictGet(completed, editor, {}) \cup {suburb})
        ELSE completed

\* the rows of one group, one after the other
RECURSIVE load_group(_, _)
load_group(group, completed) ==
    IF group = {} THEN completed
    ELSE LET row == CHOOSE r \in group : TRUE
         IN  load_group(group \ {row}, load_row(row, completed))

\* line 58: the rows of the file, first to last
RECURSIVE load_rows(_, _)
load_rows(rows, completed) ==
    IF rows = <<>> THEN completed
    ELSE load_rows(Tail(rows), load_group(Head(rows), completed))

\* lines 54-63
load_completed(file) ==
    IF file.exists THEN load_rows(file.rows, <<>>) ELSE <<>>

\* lines 71-73: one group of rows for every editor of the mapping, in the
\* mapping's order; an editor with an empty set writes no row
RECURSIVE csv_rows(_)
csv_rows(completed) ==
    IF completed = <<>> THEN <<>>
    ELSE LET ed   == Head(completed).k
             subs == Head(completed).v
         IN  (IF subs = {} THEN <<>> ELSE << { <<ed, suburb>> : suburb \in subs } >>)
             \o csv_rows(Tail(completed))

\* a save that adds the selection to the editor's earlier set
save_completed_merging(file, editor, suburbs_selected) ==
    LET loaded    == load_completed(file)
        completed == DictSet(loaded, editor,
                             DictGet(loaded, editor, {}) \cup suburbs_selected)
    IN  File(csv_rows(completed))

\* a save that writes the saving editor's rows alone
save_completed_own_rows(file, editor, suburbs_selected) ==
    File(csv_rows(<<[k |-> editor, v |-> suburbs_selected]>>))

\* lines 66-73: what save_completed leaves in SAVE_FILE
save_completed(file, editor, suburbs_selected) ==
    LET completed == DictSet(load_completed(file), editor, suburbs_selected)
    IN  File(csv_rows(completed))

----------------------------------------------------------------------------
(* GitHub push *)

\* what a push can meet: the secrets unset (line 19), update_file or, after
\* the inner except, create_file succeeding (lines 29, 31), or an exception
\* from any call of the outer try (line 32)
PushOutcomes == { "unconfigured", "pushed", "error" }

\* a push whose failure is not caught
push_to_github_raising(file, outcome) ==
    CASE outcome = "unconfigured" ->
            [notice |-> "warning", sent |-> FALSE, content |-> NoFile, raised |-> FALSE]
      [] outcome = "pushed" ->
            [notice |-> "none", sent |-> TRUE, content |-> file, raised |-> FALSE]
      [] outcome = "error" ->
            [notice |-> "none", sent |-> FALSE, content |-> NoFile, raised |-> TRUE]

\* lines 18-33.  file is the local file as it is when the push runs: line 26
\* reads it.  notice is the st.warning / st.error shown, content is what was
\* sent to the repository, raised is whether an exception leaves the function.
push_to_github(file, outcome) ==
    CASE outcome = "unconfigured" ->
            [notice |-> "warning", sent |-> FALSE, content |-> NoFile, raised |-> FALSE]
      [] outcome = "pushed" ->
            [notice |-> "none", sent |-> TRUE, content |-> file, raised |-> FALSE]
      [] outcome = "error" ->
            [notice |-> "error", sent |-> FALSE, content |-> NoFile, raised |-> FALSE]

\* lines 65-74: save_completed with its push
save_and_push(file, editor, suburbs_selected, outcome) ==
    LET f == save_completed(file, editor, suburbs_selected)
    IN  [file |-> f, push |-> push_to_github(f, outcome)]

----------------------------------------------------------------------------
(* Roster and assignment overrides *)

\* pd.read_csv's value for one field of assignments.csv (None stands for NaN)
pd_value(t) == IF t \in NA_VALUES THEN None ELSE t

\* DataFrame.to_csv's text for one value: a missing value is written empty
to_csv_field(v) == IF v = None THEN <<>> ELSE v

\* line 97: the override table, read or created empty
read_overrides(file) ==
    IF file.exists
    THEN [i \in 1..Len(file.rows) |->
            <<pd_value(file.rows[i][1]), pd_value(file.rows[i][2])>>]
    ELSE <<>>

\* lines 47-50: dict(zip(...)) keeps the last row of a key; a suburb with no
\* override, or whose override is missing, keeps the shapefile's value
apply_overrides(roster, file) ==
    LET ov == read_overrides(file)
        has(s) == \E i \in 1..Len(ov) : ov[i][1] = s
        last(s) == CHOOSE i \in 1..Len(ov) :
                       ov[i][1] = s /\ \A j \in 1..Len(ov) : ov[j][1] = s => j <= i
    IN  [s \in DOMAIN roster |->
            IF has(s) /\ ov[last(s)][2] # None THEN ov[last(s)][2] ELSE roster[s]]

NotCached == [loaded |-> FALSE, gdf |-> <<>>]

\* lines 36-52: the cached value when there is one
load_shapefile(cached, roster, file) ==
    IF cached.loaded THEN cached.gdf
    ELSE IF file.exists THEN apply_overrides(roster, file) ELSE roster

\* line 86
editors_of(gdf) == { gdf[s] : s \in DOMAIN gdf } \ { None }

\* a handler that adds a row for every reassignment
reassign_appending(file, sub_to_change, new_owner) ==
    LET ov  == read_overrides(file)
        new == Append(ov, <<sub_to_change, new_owner>>)
    IN  File([i \in 1..Len(new) |->
                <<to_csv_field(new[i][1]), to_csv_field(new[i][2])>>])

\* lines 97-102: the override file the handler writes
reassign(file, sub_to_change, new_owner) ==
    LET ov == read_overrides(file)
        new == IF \E i \in 1..Len(ov) : ov[i][1] = sub_to_change
               THEN [i \in 1..Len(ov) |->
                        IF ov[i][1] = sub_to_change
                        THEN <<ov[i][1], new_owner>> ELSE ov[i]]
               ELSE Append(ov, <<sub_to_change, new_owner>>)
    IN  File([i \in 1..Len(new) |->
                <<to_csv_field(new[i][1]), to_csv_field(new[i][2])>>])

----------------------------------------------------------------------------
(* Reconciler and statistics *)

\* a reconciler that lets the last editor holding the suburb win
determine_status_last_wins(suburb, completed) ==
    IF \E i \in 1..Len(completed) : suburb \in completed[i].v
    THEN LET last == CHOOSE i \in 1..Len(completed) :
                         /\ suburb \in completed[i].v
                         /\ \A j \in 1..Len(completed) :
                                suburb \in completed[j].v => j <= i
         IN  [status |-> "Complete", EditorDone |-> completed[last].k]
    ELSE [status |-> "Not Started", EditorDone |-> None]

\* lines 129-137: the first editor, in the mapping's order, whose set has it
determine_status(suburb, completed) ==
    IF \E i \in 1..Len(completed) : suburb \in completed[i].v
    THEN LET first == CHOOSE i \in 1..Len(completed) :
                          /\ suburb \in completed[i].v
                          /\ \A j \in 1..Len(completed) :
                                 suburb \in completed[j].v => i <= j
         IN  [status |-> "Complete", EditorDone |-> completed[first].k]
    ELSE [status |-> "Not Started", EditorDone |-> None]

\* round((count / total) * 100, 1), in tenths of a percent; total > 0
round_percent(count, total) ==
    LET q == (count * 1000) \div total
        r == (count * 1000) % total
    IN  IF 2 * r > total \/ (2 * r = total /\ q % 2 = 1) THEN q + 1 ELSE q

\* lines 214-217: the guarded per-editor percentage ("0%" is 0 tenths)
editor_progress(completed_count, total_assigned) ==
    IF total_assigned > 0
    THEN [error |-> "none", tenths |-> round_percent(completed_count, total_assigned)]
    ELSE [error |-> "none", tenths |-> 0]

\* line 233: the overall percentage divides without a guard
total_completion(done_all, total_all) ==
    IF total_all = 0
    THEN [error |-> "ZeroDivisionError", tenths |-> -1]
    ELSE [error |-> "none", tenths |-> round_percent(done_all, total_all)]

----------------------------------------------------------------------------
(* One run of the script *)

\* nothing rendered yet
Blank ==
    [rendered |-> FALSE, error |-> "none", completed_suburbs_by_editor |-> <<>>,
     status |-> <<>>, summary |-> <<>>, total |-> -1]

\* lines 84-234 with no button pressed.  With no suburb in the roster line 92
\* indexes an empty array and the run ends there.
render(gdf, file) ==
    LET completed == load_completed(file)
        status    == [s \in DOMAIN gdf |-> determine_status(s, completed)]
        done(S)   == Cardinality({ s \in S : status[s].status = "Complete" })
        of(ed)    == { s \in DOMAIN gdf : gdf[s] = ed }
        overall   == total_completion(done(DOMAIN gdf), Cardinality(DOMAIN gdf))
    IN  IF DOMAIN gdf = {}
        THEN [rendered |-> TRUE, error |-> "IndexError",
              completed_suburbs_by_editor |-> completed,
              status |-> <<>>, summary |-> <<>>, total |-> -1]
        ELSE [rendered |-> TRUE, error |-> overall.error,
              completed_suburbs_by_editor |-> completed,
              status  |-> status,
              summary |-> [ed \in editors_of(gdf) |->
                              [Completed |-> done(of(ed)),
                               Total     |-> Cardinality(of(ed)),
                               Progress  |-> editor_progress(done(of(ed)),
                                                Cardinality(of(ed))).tenths]],
              total   |-> overall.tenths]

\* an exception left a handler: the run stops where it is, nothing is redrawn
crashed(v) == [v EXCEPT !.error = "Exception"]

----------------------------------------------------------------------------
(* The application: every action is one script run, from the top to its end. *)
(* st.rerun() discards the notices of the run that called it, so a push      *)
(* that returns leaves nothing on the page that follows.                     *)

A == <<"A">>
B == <<"B">>
X == <<"X">>
Y == <<"Y">>
Z == <<"Z">>

EDITORS == { A, B }
SUBURBS == { X, Y, Z }

\* the rosters a deployment starts from: no suburb at all, every suburb
\* assigned, one suburb unassigned, every suburb unassigned
Rosters ==
    { <<>>,
      (X :> A) @@ (Y :> A) @@ (Z :> B),
      (X :> None) @@ (Y :> A) @@ (Z :> B),
      (X :> None) @@ (Y :> None) @@ (Z :> None) }

\* the suburbs the admin picks for reassignment
Reassigned == { X, Y }

NoCall == [op |-> "none"]

Init ==
    /\ shp \in Rosters
    /\ saveFile = NoFile
    /\ assignFile = NoFile
    /\ cache = NotCached
    /\ view = Blank
    /\ call = NoCall
    /\ procs = <<>>

\* the page is opened or refreshed
PageLoad ==
    LET gdf == load_shapefile(cache, shp, assignFile)
    IN  /\ cache' = [loaded |-> TRUE, gdf |-> gdf]
        /\ view' = render(gdf, saveFile)
        /\ call' = NoCall
        /\ UNCHANGED <<shp, saveFile, assignFile, procs>>

\* the widgets below line 92 exist only on a page that got that far
Clickable == view.rendered /\ view.error = "none"

\* lines 97-103
reassign_and_push(file, sub_to_change, new_owner, outcome) ==
    LET f == reassign(file, sub_to_change, new_owner)
    IN  [file |-> f, push |-> push_to_github(f, outcome)]

\* "Confirm Reassignment", lines 89-106, and the rerun it asks for
ConfirmReassignment(sub_to_change, new_owner) ==
    \E outcome \in PushOutcomes :
    LET gdf == load_shapefile(cache, shp, assignFile)
        r   == reassign_and_push(assignFile, sub_to_change, new_owner, outcome)
        new == load_shapefile(NotCached, shp, r.file)
    IN  /\ Clickable
        /\ sub_to_change \in DOMAIN gdf
        /\ IF editors_of(gdf) = {} THEN new_owner = None
                                   ELSE new_owner \in editors_of(gdf)
        /\ assignFile' = r.file
        /\ IF r.push.raised
           THEN /\ view' = crashed(view)
                /\ cache' = [loaded |-> TRUE, gdf |-> gdf]
           ELSE /\ view' = render(new, saveFile)
                /\ cache' = [loaded |-> TRUE, gdf |-> new]
        /\ call' = [op |-> "reassign", editor |-> new_owner,
                    suburbs |-> {sub_to_change}, roster |-> gdf,
                    saved |-> saveFile, status |-> view.status]
        /\ UNCHANGED <<shp, saveFile, procs>>

\* a multiselect that offers every suburb of the roster
editor_suburbs_whole_roster(gdf, selected_editor) == DOMAIN gdf

\* line 114: what the multiselect offers
editor_suburbs(gdf, selected_editor) ==
    { s \in DOMAIN gdf : gdf[s] = selected_editor }

\* lines 115-120: what the multiselect pre-selects
default_selection(gdf, completed, selected_editor) ==
    { s \in DictGet(completed, selected_editor, {}) :
        s \in editor_suburbs(gdf, selected_editor) }

\* "Save Progress", lines 113-126, and the rerun it asks for
SaveProgress(selected_editor, selected_suburbs) ==
    \E outcome \in PushOutcomes :
    LET gdf == load_shapefile(cache, shp, assignFile)
        r   == save_and_push(saveFile, selected_editor, selected_suburbs, outcome)
    IN  /\ Clickable
        /\ IF editors_of(gdf) = {} THEN selected_editor = None
                                   ELSE selected_editor \in editors_of(gdf)
        /\ selected_suburbs \subseteq editor_suburbs(gdf, selected_editor)
        /\ saveFile' = r.file
        /\ IF r.push.raised
           THEN view' = crashed(view)
           ELSE view' = render(gdf, r.file)
        /\ cache' = [loaded |-> TRUE, gdf |-> gdf]
        /\ call' = [op |-> "save", editor |-> selected_editor,
                    suburbs |-> selected_suburbs,
                    had |-> DictGet(load_completed(saveFile), selected_editor, {})]
        /\ UNCHANGED <<shp, assignFile, procs>>

Next ==
    \/ PageLoad
    \/ \E s \in Reassigned, e \in EDITORS \cup { None } : ConfirmReassignment(s, e)
    \/ \E e \in EDITORS \cup { None }, sel \in SUBSET SUBURBS : SaveProgress(e, sel)

Spec == Init /\ [][Next]_vars

----------------------------------------------------------------------------
(* The two stores on their own: save_completed, load_completed and the       *)
(* reassignment write, called on a completion file with any prior content.   *)

\* field texts a completion file found on disk can hold: names, a name with
\* blanks around it, an empty (missing) field, a blank field, a field that
\* spells a missing-value marker
EditorFields == { A, B, <<SP, "A">>, <<>>, <<SP>> }
SuburbFields == { X, Y, <<"X", SP>>, <<>>, <<"N", "A">> }

RECURSIVE SeqsUpTo(_, _)
SeqsUpTo(S, n) ==
    IF n = 0 THEN { <<>> }
    ELSE LET shorter == SeqsUpTo(S, n - 1)
         IN  shorter \cup { Append(q, x) : q \in shorter, x \in S }

PriorFiles ==
    { NoFile } \cup
    { File(rows) :
        rows \in SeqsUpTo({ { <<e, t>> } : e \in EditorFields, t \in SuburbFields },
                          MaxRows) }

InitStore ==
    /\ shp = <<>>
    /\ saveFile \in PriorFiles
    /\ assignFile = NoFile
    /\ cache = NotCached
    /\ view = Blank
    /\ call = NoCall
    /\ procs = <<>>

\* save_completed(editor, suburbs_selected), lines 65-74
StoreSave(editor, suburbs_selected, outcome) ==
    LET r == save_and_push(saveFile, editor, suburbs_selected, outcome)
    IN  /\ saveFile' = r.file
        /\ call' = [op |-> "save", editor |-> editor, suburbs |-> suburbs_selected,
                    before |-> load_completed(saveFile), push |-> r.push]
        /\ view' = Blank
        /\ UNCHANGED <<shp, assignFile, cache, procs>>

\* load_completed(), line 85
StoreLoad ==
    /\ view' = [Blank EXCEPT !.rendered = TRUE,
                             !.completed_suburbs_by_editor = load_completed(saveFile)]
    /\ UNCHANGED <<shp, saveFile, assignFile, cache, call, procs>>

NextStore ==
    \/ \E e \in EDITORS, sel \in SUBSET { X, Y }, o \in PushOutcomes : StoreSave(e, sel, o)
    \/ StoreLoad

SpecStore == InitStore /\ [][NextStore]_vars

----------------------------------------------------------------------------
(* The two writes with their pushes, from a fresh deployment *)

InitSync ==
    /\ shp = <<>>
    /\ saveFile = NoFile
    /\ assignFile = NoFile
    /\ cache = NotCached
    /\ view = Blank
    /\ call = NoCall
    /\ procs = <<>>

\* the reassignment write with its push, lines 97-103
StoreReassign(sub_to_change, new_owner, outcome) ==
    LET r == reassign_and_push(assignFile, sub_to_change, new_owner, outcome)
    IN  /\ assignFile' = r.file
        /\ call' = [op |-> "reassign", editor |-> new_owner, suburbs |-> {sub_to_change},
                    before |-> assignFile, push |-> r.push]
        /\ UNCHANGED <<shp, saveFile, cache, view, procs>>

NextSync ==
    \/ \E e \in EDITORS, sel \in SUBSET { X }, o \in PushOutcomes : StoreSave(e, sel, o)
    \/ \E s \in { X, Y }, e \in EDITORS, o \in PushOutcomes : StoreReassign(s, e, o)

SpecSync == InitSync /\ [][NextSync]_vars

----------------------------------------------------------------------------
(* Two sessions, each running save_completed once, a statement group at a    *)
(* time.  Lines 68-73 are one step: the file is taken as written whole.      *)

Sessions == { 1, 2 }

\* a write that loads the file again before it writes
write_rows_rereading(file, completed, editor, suburbs_selected) ==
    File(csv_rows(DictSet(load_completed(file), editor, suburbs_selected)))

\* lines 68-73: the whole file is written from the caller's own mapping
write_rows(file, completed, editor, suburbs_selected) ==
    File(csv_rows(completed))

Idle ==
    [pc |-> "idle", editor |-> None, suburbs |-> {}, completed |-> <<>>,
     readAt |-> 0, wroteAt |-> 0]

\* the number of writes of the file so far (history, for stating the order
\* of reads and writes)
Writes == Cardinality({ p \in Sessions : procs[p].pc \in { "line74", "done" } })

InitConc ==
    /\ shp = <<>>
    /\ saveFile \in { NoFile, File(<< { <<A, X>> } >>) }
    /\ assignFile = NoFile
    /\ cache = NotCached
    /\ view = Blank
    /\ call = NoCall
    /\ procs = [p \in Sessions |-> Idle]

\* lines 66-67 of a call save_completed(editor, suburbs_selected)
SaveRead(p, editor, suburbs_selected) ==
    /\ procs[p].pc = "idle"
    /\ procs' = [procs EXCEPT ![p] =
                    [pc |-> "line68", editor |-> editor, suburbs |-> suburbs_selected,
                     completed |-> DictSet(load_completed(saveFile), editor,
                                           suburbs_selected),
                     readAt |-> Writes, wroteAt |-> 0]]
    /\ UNCHANGED <<shp, saveFile, assignFile, cache, view, call>>

\* lines 68-73
SaveWrite(p) ==
    /\ procs[p].pc = "line68"
    /\ saveFile' = write_rows(saveFile, procs[p].completed, procs[p].editor,
                              procs[p].suburbs)
    /\ procs' = [procs EXCEPT ![p].pc = "line74", ![p].wroteAt = Writes + 1]
    /\ UNCHANGED <<shp, assignFile, cache, view, call>>

\* line 74, and the return
SavePush(p, outcome) ==
    /\ procs[p].pc = "line74"
    /\ procs' = [procs EXCEPT ![p].pc =
                    IF push_to_github(saveFile, outcome).raised THEN "raised"
                                                                ELSE "done"]
    /\ UNCHANGED <<shp, saveFile, assignFile, cache, view, call>>

NextConc ==
    \/ \E p \in Sessions, e \in EDITORS, sel \in SUBSET { X, Y } : SaveRead(p, e, sel)
    \/ \E p \in Sessions : SaveWrite(p)
    \/ \E p \in Sessions, o \in PushOutcomes : SavePush(p, o)

SpecConc == InitConc /\ [][NextConc]_vars

----------------------------------------------------------------------------
(* Claims about the completion store, under SpecStore *)

\* the mapping a load_completed() that follows the last save returned
SavedAndLoaded == call.op = "save" /\ view.rendered

RECURSIVE with_both_fields(_)
with_both_fields(rows) ==
    IF rows = <<>> THEN <<>>
    ELSE LET kept == { r \in Head(rows) : r[1] # <<>> /\ r[2] # <<>> }
         IN  (IF kept = {} THEN <<>> ELSE <<kept>>) \o with_both_fields(Tail(rows))

\* C6: a row whose Editor or Suburb field is missing adds no editor and no
\* suburb to what load_completed returns (the mapping is the one the other
\* rows give), and with no file the mapping is empty.
C6_MissingFieldRowsSkipped ==
    view.rendered =>
        /\ saveFile.exists =>
              view.completed_suburbs_by_editor
                 = load_completed(File(with_both_fields(saveFile.rows)))
        /\ ~saveFile.exists => view.completed_suburbs_by_editor = <<>>

----------------------------------------------------------------------------
(* Claims about the application, under Spec *)

Shown == view.rendered /\ view.error = "none"

Holders(completed, s) == { i \in 1..Len(completed) : s \in completed[i].v }

\* the files that hold the same rows as f with the groups in another order
Reordered(f) ==
    { File([i \in 1..Len(f.rows) |-> f.rows[p[i]]]) :
        p \in { q \in [1..Len(f.rows) -> 1..Len(f.rows)] :
                  \A i, j \in 1..Len(f.rows) : i # j => q[i] # q[j] } }

\* C3: a suburb is Complete iff some editor's set contains it, and Not Started
\* with no owner otherwise; the owner is fixed by the persisted set of (editor,
\* suburb) pairs alone: the same rows written in another order give the same
\* owner.
C3_OwnerFixedByPersistedPairs ==
    Shown =>
        \A s \in DOMAIN view.status :
            /\ view.status[s].status = "Complete"
                  <=> Holders(view.completed_suburbs_by_editor, s) # {}
            /\ view.status[s].status = "Not Started"
                  => view.status[s].EditorDone = None
            /\ \A f \in Reordered(saveFile) :
                  determine_status(s, load_completed(f)).EditorDone
                     = view.status[s].EditorDone

\* the rows of the override file that name suburb s
OverrideRow(s) == { i \in 1..Len(assignFile.rows) : assignFile.rows[i][1] = s }

\* at most one override row per suburb, and the roster that follows from it
C4_OneRowPerSuburb ==
    cache.loaded =>
        \A s \in DOMAIN shp :
            /\ Cardinality(OverrideRow(s)) <= 1
            /\ \A i \in OverrideRow(s) :
                  cache.gdf[s] =
                     IF assignFile.rows[i][2] = <<>> THEN shp[s]
                     ELSE assignFile.rows[i][2]
            /\ OverrideRow(s) = {} => cache.gdf[s] = shp[s]

\* C4: reassignment overwrites.  The override file holds at most one row per
\* suburb; the roster gives a suburb with a row the editor of that row and a
\* suburb with no row (never reassigned) its shapefile editor; and a confirmed
\* reassignment leaves exactly one row for its suburb, gives the suburb the
\* editor just chosen whatever editor it had, and leaves every other suburb's
\* editor as it was.
C4_ReassignmentOverwrites ==
    /\ C4_OneRowPerSuburb
    /\ call.op = "reassign" =>
          \A sub \in call.suburbs :
              /\ Cardinality(OverrideRow(sub)) = 1
              /\ call.editor # None => cache.gdf[sub] = call.editor
              /\ \A s \in DOMAIN shp \ { sub } : cache.gdf[s] = call.roster[s]

\* a reassignment replaced the editor of a suburb that already had an override
\* row, while another suburb has no row and keeps its shapefile editor
C4_Witness ==
    /\ call.op = "reassign"
    /\ \E sub \in call.suburbs, t \in DOMAIN shp :
          /\ call.roster[sub] # shp[sub]
          /\ Cardinality(OverrideRow(sub)) = 1
          /\ cache.gdf[sub] = call.editor
          /\ call.roster[sub] # call.editor
          /\ OverrideRow(t) = {} /\ cache.gdf[t] = shp[t] /\ shp[t] # None

\* the percentage the claim gives, in tenths of a percent
ClaimedPercent(count, total) ==
    IF total > 0 THEN round_percent(count, total) ELSE 0

\* C7: for every roster, the empty one included, a run raises no error and
\* shows, for every editor and overall, completed/total*100 rounded to one
\* decimal when total > 0 and 0 when total is 0.
C7_PercentagesNeverFail ==
    view.rendered =>
        LET gdf     == cache.gdf
            done(S) == Cardinality({ s \in S :
                          Holders(view.completed_suburbs_by_editor, s) # {} })
            of(ed)  == { s \in DOMAIN gdf : gdf[s] = ed }
        IN  /\ view.error = "none"
            /\ view.total = ClaimedPercent(done(DOMAIN gdf), Cardinality(DOMAIN gdf))
            /\ \A ed \in editors_of(gdf) :
                  view.summary[ed].Progress
                     = ClaimedPercent(done(of(ed)), Cardinality(of(ed)))

\* C8 as stated: the status of every suburb is that of the completion store
\* alone, and a suburb in an editor's completed set is Complete with that editor
\* as owner, whoever the roster assigns it to.
C8_OwnerIsAnyHolder ==
    Shown =>
        \A s \in DOMAIN view.status :
            /\ view.status[s] = determine_status(s, load_completed(saveFile))
            /\ \A i \in Holders(view.completed_suburbs_by_editor, s) :
                  view.status[s] =
                     [status |-> "Complete",
                      EditorDone |-> view.completed_suburbs_by_editor[i].k]

\* the owner is the first editor, in the mapping's order, that holds the suburb
C8_OwnerIsFirstHolder ==
    Shown =>
        \A s \in DOMAIN view.status :
            LET m == load_completed(saveFile)
                H == Holders(m, s)
            IN  /\ \A i \in H :
                      /\ view.status[s].status = "Complete"
                      /\ (\A j \in H : i <= j) => view.status[s].EditorDone = m[i].k
                /\ H = {} => view.status[s] = [status |-> "Not Started",
                                               EditorDone |-> None]

\* C8 amended: status is independent of the roster's Assigned field.  A suburb
\* in an editor's completed set is Complete whoever the roster assigns it to,
\* with that editor as owner unless an editor earlier in the mapping's order
\* holds it too; a suburb in no set is Not Started with no owner; and a
\* confirmed reassignment leaves the completion file and the status and owner
\* of every suburb as they were.
C8_StatusIndependentOfAssigned ==
    /\ C8_OwnerIsFirstHolder
    /\ call.op = "reassign" =>
          /\ saveFile = call.saved
          /\ Shown => view.status = call.status

\* a reassignment took a suburb from the editor who completed it: the suburb
\* is still Complete with that editor as owner, and assigned to another
C8_Witness ==
    /\ Shown
    /\ call.op = "reassign"
    /\ \E s \in call.suburbs :
          /\ view.status[s].status = "Complete"
          /\ view.status[s].EditorDone = call.roster[s]
          /\ view.status[s].EditorDone # cache.gdf[s]
          /\ view.status = call.status

\* C10: a save through the sidebar leaves the selected editor with a subset of
\* the suburbs the roster assigns to that editor; so a suburb of the editor's
\* earlier set that the roster now assigns to someone else is out of the set
\* after the save, and is Not Started unless another editor's set contains it.
C10_SavedSetWithinAssigned ==
    call.op = "save" =>
        LET gdf      == cache.gdf
            ed       == call.editor
            assigned == { s \in DOMAIN gdf : gdf[s] = ed }
            old      == call.had
            m        == load_completed(saveFile)
        IN  /\ call.suburbs \subseteq assigned
            /\ DictGet(m, ed, {}) \subseteq assigned
            /\ \A s \in old \ assigned :
                  /\ s \notin DictGet(m, ed, {})
                  /\ (Shown /\ s \in DOMAIN gdf) =>
                        \/ view.status[s].status = "Not Started"
                        \/ \E e2 \in DictKeys(m) \ { ed } : s \in DictGet(m, e2, {})

\* an editor who had completed a suburb and lost it to another editor saved
\* again, keeping another suburb: the lost suburb is out of the editor's set
C10_Witness ==
    /\ Shown
    /\ call.op = "save"
    /\ call.suburbs # {}
    /\ \E s \in call.had :
          /\ s \in DOMAIN cache.gdf
          /\ cache.gdf[s] # call.editor
          /\ shp[s] = call.editor
          /\ s \notin DictGet(load_completed(saveFile), call.editor, {})
          /\ view.status[s].status = "Not Started"

----------------------------------------------------------------------------
(* Claims about the pushes, under SpecSync *)

\* C5: a save or a reassignment completes without raising whatever the push
\* meets; the local file it leaves is the one its arguments and the file it
\* read give, the same for every push outcome; and what a push sends is the
\* local file already written.
C5_PushNeverAffectsLocal ==
    /\ call.op \in { "save", "reassign" } =>
          /\ ~call.push.raised
          /\ call.push.sent => call.push.content =
                                  (IF call.op = "save" THEN saveFile ELSE assignFile)
    /\ call.op = "save" =>
          load_completed(saveFile)
             = load_completed(File(csv_rows(
                   DictSet(call.before, call.editor, call.suburbs))))
    /\ call.op = "reassign" =>
          /\ assignFile.exists
          /\ \E i \in 1..Len(assignFile.rows) :
                assignFile.rows[i] = <<CHOOSE s \in call.suburbs : TRUE, call.editor>>
    /\ \A o1, o2 \in PushOutcomes, e \in EDITORS, sel \in SUBSET { X }, s \in { X, Y } :
          /\ save_and_push(saveFile, e, sel, o1).file
                = save_and_push(saveFile, e, sel, o2).file
          /\ reassign_and_push(assignFile, s, e, o1).file
                = reassign_and_push(assignFile, s, e, o2).file

\* a save whose push failed left its rows in the local file
C5_Witness ==
    /\ call.op = "save"
    /\ call.push.notice = "error"
    /\ call.suburbs # {}
    /\ DictGet(load_completed(saveFile), call.editor, {}) = call.suburbs

----------------------------------------------------------------------------
(* Claims about concurrent saves, under SpecConc *)

Returned(p) == procs[p].pc = "done"

\* C9: of two returned saves by different editors, when the later writer read
\* the file before the earlier one wrote it, the file holds for the earlier
\* editor what the later writer had read, not what the earlier one saved; when
\* the later writer read after the earlier write, both editors' sets are there.
C9_LaterWriteDiscardsUnreadChange ==
    procs # <<>> =>
        \A p, q \in Sessions :
            ( /\ Returned(p) /\ Returned(q)
              /\ procs[p].editor # procs[q].editor
              /\ procs[p].wroteAt < procs[q].wroteAt ) =>
                LET m == load_completed(saveFile)
                IN  IF procs[q].readAt < procs[p].wroteAt
                    THEN DictGet(m, procs[p].editor, {})
                            = DictGet(procs[q].completed, procs[p].editor, {})
                    ELSE /\ DictGet(m, procs[p].editor, {}) = procs[p].suburbs
                         /\ DictGet(m, procs[q].editor, {}) = procs[q].suburbs

\* both saves returned and the first writer's set is not in the file
C9_Witness ==
    /\ procs # <<>>
    /\ \E p, q \in Sessions :
          /\ Returned(p) /\ Returned(q)
          /\ procs[p].editor # procs[q].editor
          /\ procs[q].readAt < procs[p].wroteAt
          /\ procs[p].wroteAt < procs[q].wroteAt
          /\ procs[p].suburbs # {}
          /\ DictGet(load_completed(saveFile), procs[p].editor, {}) # procs[p].suburbs

====
